---------------------------- MODULE Spec2Model ----------------------------
(***************************************************************************)
(* Model of the NEON signal-processing kernels of obj_detection_util.h.    *)
(*                                                                         *)
(* Every behaviour is one call of one kernel: Init is the moment of the    *)
(* call (arguments bound, caller's output buffer holding whatever it held),*)
(* and each action is one step of the kernel's body: its prologue, one     *)
(* iteration of a loop, or its epilogue.                                   *)
(*                                                                         *)
(* Buffers are functions over 0 .. count-1, so indices are the C indices.  *)
(* A float32x4_t / uint32x4_t register is a 4-tuple; lane k of the source  *)
(* is component k+1.                                                       *)
(*                                                                         *)
(* Numbers.  A binary32 value that is an integer of magnitude below 2^24   *)
(* is represented by that integer: sums, differences and products of such  *)
(* values that stay below 2^24 are exact in binary32, so the integer       *)
(* operators +, -, * compute what vaddq_f32, vsubq_f32 and vfmaq_f32       *)
(* compute on them.  A quotient is in general not an integer; it is        *)
(* represented by the pair <<m, e>> for the value m * 2^e, with            *)
(* 2^23 <= |m| < 2^24 (or <<0, 0>>), rounded to nearest, ties to even, as  *)
(* IEEE-754 binary32 division and multiplication round.                    *)
(***************************************************************************)
EXTENDS Integers, Sequences, FiniteSets, TLC

(***************************************************************************)
(* Bounds of the model.                                                    *)
(***************************************************************************)
MaxCountScan == 9      \* cumulative_sum: seed + two full groups
MaxCountMin == 9       \* min_index: seed lanes, one lane iteration, a tail
MaxCountAvg == 5       \* weighted_average, cross_correlation
MaxCountElem == 5      \* speed, threshold_detection
MaxCountFilter == 6    \* moving_average_filter
MaxWindow == 5         \* moving_average_filter window_size
MaxCountEma == 3       \* exp_moving_average
MaxDelta == 3          \* speed: time_delta in 1 .. MaxDelta

ScanSamples == {1, 2}
MinSamples == {0, 1, 2}
AvgValues == {1, 3}
AvgWeights == {-1, 0, 2}
CorrSamples == {1, 2}
PrevSamples == {0, 2}
CurrSamples == {5, 7}
FilterSamples == {0, 1, 2}
EmaSamples == {1, 2}
AlphaShifts == {1, 2}  \* alpha = 2^-1, 2^-2
DetSamples == {0, 1, 2}
Thresholds == {0, 1, 2}

\* what the caller's output buffer may hold before the call
GarbageInt == {-7, 0}
GarbageFloat == {<<0, 0>>, <<-(2 ^ 23), 0>>}

(***************************************************************************)
(* Constants of the program and of its number format.                      *)
(***************************************************************************)
Lanes == 4             \* elements per 128-bit register
MantissaBits == 24     \* binary32 significand precision

Abs(x) == IF x < 0 THEN -x ELSE x
Sgn(x) == IF x < 0 THEN -1 ELSE 1
Pow2(k) == 2 ^ k

(***************************************************************************)
(* binary32 rounding of a quotient or product of small integers.           *)
(***************************************************************************)
\* n / d rounded to an integer, to nearest, ties to even
RoundQ(n, d) ==
    LET q == n \div d
        r == n % d
    IN  IF 2 * r > d \/ (2 * r = d /\ q % 2 = 1) THEN q + 1 ELSE q

\* rounding up to 2^24 carries into the exponent
Renorm(m, e) ==
    IF m = Pow2(MantissaBits) THEN <<Pow2(MantissaBits - 1), e + 1>> ELSE <<m, e>>

RECURSIVE ScaleUp(_, _, _)
\* least k >= 0 with a * 2^k / d >= 2^23
ScaleUp(a, d, k) ==
    IF a * Pow2(k) >= Pow2(MantissaBits - 1) * d THEN k ELSE ScaleUp(a, d, k + 1)

RECURSIVE ScaleDown(_, _)
\* least s >= 0 with p / 2^s < 2^24
ScaleDown(p, s) ==
    IF p \div Pow2(s) < Pow2(MantissaBits) THEN s ELSE ScaleDown(p, s + 1)

\* the binary32 quotient n / d of two integer-valued floats, d > 0
FDiv(n, d) ==
    IF n = 0 THEN <<0, 0>>
    ELSE LET k == ScaleUp(Abs(n), d, 0)
             f == Renorm(RoundQ(Abs(n) * Pow2(k), d), -k)
         IN  <<Sgn(n) * f[1], f[2]>>

\* the binary32 product x * f of an integer-valued float x and a float f
FMul(x, f) ==
    IF x = 0 \/ f[1] = 0 THEN <<0, 0>>
    ELSE LET p == Abs(x) * Abs(f[1])
             s == ScaleDown(p, 0)
             g == Renorm(RoundQ(p, Pow2(s)), f[2] + s)
         IN  <<Sgn(x) * Sgn(f[1]) * g[1], g[2]>>

(***************************************************************************)
(* NEON intrinsics.                                                        *)
(***************************************************************************)
vdupq_n(x) == <<x, x, x, x>>
vaddq(a, b) == [k \in 1 .. Lanes |-> a[k] + b[k]]
vsubq(a, b) == [k \in 1 .. Lanes |-> a[k] - b[k]]
\* a + b * c per lane
vfmaq(a, b, c) == [k \in 1 .. Lanes |-> a[k] + b[k] * c[k]]
\* the top Lanes-n elements of a followed by the bottom n of b
vextq(a, b, n) == [k \in 1 .. Lanes |-> IF k + n <= Lanes THEN a[k + n] ELSE b[k + n - Lanes]]
\* A uint32 mask lane is the pair <<high half, low half>> of 16-bit words.
AllOnes32 == <<Pow2(16) - 1, Pow2(16) - 1>>
AllZero32 == <<0, 0>>
\* per-lane compare: all ones where it holds, all zero where not
vcltq(a, b) == [k \in 1 .. Lanes |-> IF a[k] < b[k] THEN AllOnes32 ELSE AllZero32]
vcgtq(a, b) == [k \in 1 .. Lanes |-> IF a[k] > b[k] THEN AllOnes32 ELSE AllZero32]
\* bitwise select, on masks whose lanes are all ones or all zero
vbslq(mask, a, b) == [k \in 1 .. Lanes |-> IF mask[k] = AllOnes32 THEN a[k] ELSE b[k]]
\* narrowing moves keep the low half of each lane
vmovn_u32(m) == [k \in 1 .. Lanes |-> m[k][2]]
vmovn_u16(h) == [k \in 1 .. Lanes |-> h[k] % Pow2(8)]
\* mutant: the reduction forgets the high half of the register
HorizontalSumLowHalf(v) == v[1] + v[2]

\* vadd(vget_low, vget_high) then vpadd, lane 0
HorizontalSum(v) ==
    LET pair == <<v[1] + v[3], v[2] + v[4]>>
    IN  pair[1] + pair[2]

\* the value at buf[k]; outside the buffer the load returns foreign memory
Wild == 77
Load(buf, k) == IF k \in DOMAIN buf THEN buf[k] ELSE Wild
vld1q(buf, k) == [l \in 1 .. Lanes |-> Load(buf, k + l - 1)]
Store(buf, k, v) == IF k \in DOMAIN buf THEN [buf EXCEPT ![k] = v] ELSE buf
vst1q(buf, k, v) ==
    [x \in DOMAIN buf |-> IF x \in k .. k + Lanes - 1 THEN v[x - k + 1] ELSE buf[x]]

\* the accesses of a 4-wide load or store at k, and of a scalar one
LaneAt(name, k) == {<<name, x>> : x \in k .. k + Lanes - 1}
At(name, k) == {<<name, k>>}

\* mutant: the lane count is rounded up to a multiple of 4, not down
SimdCountRoundUp(n) == n + ((Lanes - (n % Lanes)) % Lanes)

\* count & ~3
SimdCount(n) == n - (n % Lanes)

VARIABLES
    kernel,     \* the kernel called
    pc,         \* position in its body
    count,      \* count / length argument
    arg,        \* time_delta, window_size, alpha shift or threshold; 0 if none
    in1, in2,   \* input buffers (in2 empty when the kernel has one input)
    out,        \* the caller's output buffer
    ret,        \* the value returned
    i,          \* loop index
    acc,        \* the kernel's local registers
    reads,      \* buffer elements read so far: <<buffer, index>>
    writes      \* buffer elements written so far

vars == <<kernel, pc, count, arg, in1, in2, out, ret, i, acc, reads, writes>>

Empty == [k \in {} |-> 0]
Buffers(n, S) == [0 .. n - 1 -> S]
Filled(n, g) == [k \in 0 .. n - 1 |-> g]

\* the state at the call of kernel name
Call(name, n, a, x, y, o) ==
    /\ kernel = name
    /\ pc = "call"
    /\ count = n
    /\ arg = a
    /\ in1 = x
    /\ in2 = y
    /\ out = o
    /\ ret = 0
    /\ i = 0
    /\ acc = <<>>
    /\ reads = {}
    /\ writes = {}

(***************************************************************************)
(* cumulative_sum(input, output, count)                                    *)
(***************************************************************************)
InitCumSum ==
    \E n \in 0 .. MaxCountScan :
        \E x \in Buffers(n, ScanSamples), g \in GarbageInt :
            Call("cumulative_sum", n, 0, x, Empty, Filled(n, g))

CumSumEarlyReturn == count = 0

\* ((count - 1) & ~3) + 1
CumSumSimdCount(n) == SimdCount(n - 1) + 1

\* the three vext/vadd steps on a loaded group
CumSumGroupScan(input_vec) ==
    LET zero == vdupq_n(0)
        r1 == vaddq(input_vec, vextq(zero, input_vec, 3))
        r2 == vaddq(r1, vextq(zero, r1, 2))
        r3 == vaddq(r2, vextq(zero, r2, 1))
    IN  r3

RECURSIVE CumSumFallback(_, _, _, _)
\* for (j = i; j < count; ++j) output[j] = output[j-1] + input[j]
CumSumFallback(o, x, j, n) ==
    IF j < n
    THEN CumSumFallback(Store(o, j, Load(o, j - 1) + Load(x, j)), x, j + 1, n)
    ELSE o

CumSumEnter ==
    /\ kernel = "cumulative_sum" /\ pc = "call"
    /\ IF CumSumEarlyReturn
       THEN /\ pc' = "done"
            /\ UNCHANGED <<out, i, acc, reads, writes>>
       ELSE /\ out' = Store(out, 0, Load(in1, 0))
            /\ reads' = reads \cup At("input", 0)
            /\ writes' = writes \cup At("output", 0)
            /\ i' = 1
            /\ acc' = [simd_count |-> CumSumSimdCount(count), fallback |-> FALSE]
            /\ pc' = "loop"
    /\ UNCHANGED <<kernel, count, arg, in1, in2, ret>>

CumSumLoop ==
    /\ kernel = "cumulative_sum" /\ pc = "loop"
    /\ IF i < acc.simd_count
       THEN LET remaining == count - i IN
            IF remaining >= Lanes
            THEN LET input_vec == vld1q(in1, i)
                     prev_sum == vdupq_n(Load(out, i - 1))
                     result == vaddq(CumSumGroupScan(input_vec), prev_sum)
                 IN  /\ out' = vst1q(out, i, result)
                     /\ reads' = reads \cup LaneAt("input", i) \cup At("output", i - 1)
                     /\ writes' = writes \cup LaneAt("output", i)
                     /\ i' = i + Lanes
                     /\ UNCHANGED <<pc, acc>>
            ELSE /\ out' = CumSumFallback(out, in1, i, count)
                 /\ reads' = reads \cup {<<"input", j>> : j \in i .. count - 1}
                                   \cup {<<"output", j - 1>> : j \in i .. count - 1}
                 /\ writes' = writes \cup {<<"output", j>> : j \in i .. count - 1}
                 /\ acc' = [acc EXCEPT !.fallback = TRUE]
                 /\ pc' = "done"
                 /\ UNCHANGED i
       ELSE /\ pc' = "done"
            /\ UNCHANGED <<out, i, acc, reads, writes>>
    /\ UNCHANGED <<kernel, count, arg, in1, in2, ret>>

NextCumSum == CumSumEnter \/ CumSumLoop

SpecCumSum == InitCumSum /\ [][NextCumSum]_vars

\* the inclusive sum buf[lo] + ... + buf[hi]
RECURSIVE SumRange(_, _, _)
SumRange(buf, lo, hi) == IF hi < lo THEN 0 ELSE SumRange(buf, lo, hi - 1) + buf[hi]

CumSumDone == kernel = "cumulative_sum" /\ pc = "done"


\* C1: when cumulative_sum returns, output[k] is the sum of input[0..k] for
\* every k in [0, count), for every count including 0 and non-multiples of 4.
C1_PrefixSum ==
    CumSumDone => \A k \in 0 .. count - 1 : out[k] = SumRange(in1, 0, k)

\* C8: every full group stored by the lane path at g = 1, 5, 9, ... holds the
\* inclusive scan of its four inputs on top of the carry:
\* output[g+k] = output[g-1] + input[g] + ... + input[g+k] for k in 0..3.
C8_GroupScan ==
    (kernel = "cumulative_sum" /\ pc \in {"loop", "done"}) =>
        \A g \in 1 .. count - 1 :
            (g % Lanes = 1 /\ g + 3 < count /\ g < i) =>
                \A k \in 0 .. 3 : out[g + k] = out[g - 1] + SumRange(in1, g, g + k)

\* first index after the last full group of a call with n elements
TailStart(n) == n - ((n - 1) % Lanes)

\* C9: when fewer than 4 elements remain after the last full group (count >= 2
\* and (count - 1) mod 4 # 0) the sequential fallback runs and writes every
\* remaining index j with output[j] = output[j-1] + input[j], so that every
\* index in [0, count) has been written when the call returns.
C9_FallbackWritesTail ==
    CumSumDone =>
        /\ (count >= 2 /\ (count - 1) % Lanes # 0) =>
              /\ acc.fallback
              /\ \A j \in TailStart(count) .. count - 1 :
                    /\ <<"output", j>> \in writes
                    /\ out[j] = out[j - 1] + in1[j]
        /\ \A k \in 0 .. count - 1 : <<"output", k>> \in writes


(***************************************************************************)
(* min_index(array, count)                                                 *)
(***************************************************************************)
InitMinIndex ==
    \E n \in 0 .. MaxCountMin :
        \E x \in Buffers(n, MinSamples) :
            Call("min_index", n, 0, x, Empty, Empty)

\* mutant: the empty-array check is missing
MinIndexNoEarlyReturn == FALSE

MinIndexEarlyReturn == count = 0

RECURSIVE MinIndexCollapseThree(_, _, _, _)
\* mutant: the collapse loop stops one lane early (i < 3)
MinIndexCollapseThree(m, values, indices, k) ==
    IF k > Lanes - 1 THEN m
    ELSE MinIndexCollapseThree(IF values[k] < m[1] THEN <<values[k], indices[k]>> ELSE m,
                               values, indices, k + 1)

RECURSIVE MinIndexCollapse(_, _, _, _)
\* for (int i = 0; i < 4; ++i) if (values[i] < min_val) { min_val, min_idx }
\* m is <<min_val, min_idx>>, k the lane (1-based)
MinIndexCollapse(m, values, indices, k) ==
    IF k > Lanes THEN m
    ELSE MinIndexCollapse(IF values[k] < m[1] THEN <<values[k], indices[k]>> ELSE m,
                          values, indices, k + 1)

\* if (array[i] < min_val) { min_val = array[i]; min_idx = i; }
MinIndexTailStep(m, v, k) == IF v < m[1] THEN <<v, k>> ELSE m

MinIndexEnter ==
    /\ kernel = "min_index" /\ pc = "call"
    /\ IF MinIndexEarlyReturn
       THEN /\ ret' = 0
            /\ pc' = "done"
            /\ UNCHANGED <<i, acc, reads>>
       ELSE LET simd_count == SimdCount(count) IN
            IF simd_count >= Lanes
            THEN /\ acc' = [m |-> <<Load(in1, 0), 0>>,
                            simd_count |-> simd_count,
                            min_vec |-> vld1q(in1, 0),
                            min_idx_vec |-> <<0, 1, 2, 3>>]
                 /\ reads' = reads \cup At("array", 0) \cup LaneAt("array", 0)
                 /\ i' = Lanes
                 /\ pc' = "lanes"
                 /\ UNCHANGED ret
            ELSE /\ acc' = [m |-> <<Load(in1, 0), 0>>,
                            simd_count |-> simd_count,
                            min_vec |-> <<>>,
                            min_idx_vec |-> <<>>]
                 /\ reads' = reads \cup At("array", 0)
                 /\ i' = simd_count
                 /\ pc' = "tail"
                 /\ UNCHANGED ret
    /\ UNCHANGED <<kernel, count, arg, in1, in2, out, writes>>

\* curr_idx holds static_cast<uint32_t>(i + k): the identity below 2^32, and
\* every index of the model is.
MinIndexLanes ==
    /\ kernel = "min_index" /\ pc = "lanes"
    /\ IF i < acc.simd_count
       THEN LET data == vld1q(in1, i)
                curr_idx == <<i, i + 1, i + 2, i + 3>>
                mask == vcltq(data, acc.min_vec)
            IN  /\ acc' = [acc EXCEPT !.min_vec = vbslq(mask, data, acc.min_vec),
                                      !.min_idx_vec = vbslq(mask, curr_idx, acc.min_idx_vec)]
                /\ reads' = reads \cup LaneAt("array", i)
                /\ i' = i + Lanes
                /\ UNCHANGED pc
       ELSE /\ acc' = [acc EXCEPT !.m = MinIndexCollapse(acc.m, acc.min_vec, acc.min_idx_vec, 1)]
            /\ i' = acc.simd_count
            /\ pc' = "tail"
            /\ UNCHANGED reads
    /\ UNCHANGED <<kernel, count, arg, in1, in2, out, ret, writes>>

MinIndexTail ==
    /\ kernel = "min_index" /\ pc = "tail"
    /\ IF i < count
       THEN /\ acc' = [acc EXCEPT !.m = MinIndexTailStep(acc.m, Load(in1, i), i)]
            /\ reads' = reads \cup At("array", i)
            /\ i' = i + 1
            /\ UNCHANGED <<pc, ret>>
       ELSE /\ ret' = acc.m[2]
            /\ pc' = "done"
            /\ UNCHANGED <<i, acc, reads>>
    /\ UNCHANGED <<kernel, count, arg, in1, in2, out, writes>>

NextMinIndex == MinIndexEnter \/ MinIndexLanes \/ MinIndexTail

SpecMinIndex == InitMinIndex /\ [][NextMinIndex]_vars

MinIndexDone == kernel = "min_index" /\ pc = "done"

\* the indices at which the minimum of the array occurs
MinPlaces == {j \in 0 .. count - 1 : \A k \in 0 .. count - 1 : in1[j] <= in1[k]}

\* C2: when the minimum occurs at more than one index, min_index returns the
\* smallest index at which it occurs, wherever the tied elements lie.
C2_SmallestIndexOnTies ==
    (MinIndexDone /\ count >= 1 /\ Cardinality(MinPlaces) > 1) =>
        (ret \in MinPlaces /\ \A j \in MinPlaces : ret <= j)

\* C3: for count >= 1 the index r returned by min_index satisfies r < count
\* and array[r] <= array[j] for every j in [0, count).
C3_ArgMin ==
    (MinIndexDone /\ count >= 1) =>
        (ret \in 0 .. count - 1 /\ \A j \in 0 .. count - 1 : in1[ret] <= in1[j])

\* a call whose minimum is found by a lane-loop iteration, tail present
C3_Witness ==
    /\ MinIndexDone /\ count >= 2 * Lanes + 1
    /\ ret \in Lanes .. 2 * Lanes - 1
    /\ in1[ret] < in1[0]


(***************************************************************************)
(* threshold_detection(sensor_data, detections, count, threshold)          *)
(***************************************************************************)
InitThreshold ==
    \E n \in 0 .. MaxCountElem :
        \E x \in Buffers(n, DetSamples), t \in Thresholds, g \in GarbageInt :
            Call("threshold_detection", n, t, x, Empty, Filled(n, g))

\* mutant: the lane path compares with >= (vcgeq_f32) instead of >
ThresholdLaneFlagsGe(data, thresh_vec) ==
    [k \in 1 .. Lanes |-> IF data[k] >= thresh_vec[k] THEN 1 ELSE 0]

\* vget_lane_u8(mask8, k) ? 1 : 0 for the four lanes of a group
ThresholdLaneFlags(data, thresh_vec) ==
    LET mask == vcgtq(data, thresh_vec)
        mask16 == vmovn_u32(mask)
        mask8 == vmovn_u16(mask16)
    IN  [k \in 1 .. Lanes |-> IF mask8[k] # 0 THEN 1 ELSE 0]

\* sensor_data[i] > threshold ? 1 : 0
ThresholdTailFlag(v, threshold) == IF v > threshold THEN 1 ELSE 0

ThresholdEnter ==
    /\ kernel = "threshold_detection" /\ pc = "call"
    /\ acc' = [thresh_vec |-> vdupq_n(arg), simd_count |-> SimdCount(count)]
    /\ i' = 0
    /\ pc' = "lanes"
    /\ UNCHANGED <<kernel, count, arg, in1, in2, out, ret, reads, writes>>

ThresholdLanes ==
    /\ kernel = "threshold_detection" /\ pc = "lanes"
    /\ IF i < acc.simd_count
       THEN /\ out' = vst1q(out, i, ThresholdLaneFlags(vld1q(in1, i), acc.thresh_vec))
            /\ reads' = reads \cup LaneAt("sensor_data", i)
            /\ writes' = writes \cup LaneAt("detections", i)
            /\ i' = i + Lanes
            /\ UNCHANGED pc
       ELSE /\ i' = acc.simd_count
            /\ pc' = "tail"
            /\ UNCHANGED <<out, reads, writes>>
    /\ UNCHANGED <<kernel, count, arg, in1, in2, ret, acc>>

ThresholdTail ==
    /\ kernel = "threshold_detection" /\ pc = "tail"
    /\ IF i < count
       THEN /\ out' = Store(out, i, ThresholdTailFlag(Load(in1, i), arg))
            /\ reads' = reads \cup At("sensor_data", i)
            /\ writes' = writes \cup At("detections", i)
            /\ i' = i + 1
            /\ UNCHANGED pc
       ELSE /\ pc' = "done"
            /\ UNCHANGED <<out, i, reads, writes>>
    /\ UNCHANGED <<kernel, count, arg, in1, in2, ret, acc>>

NextThreshold == ThresholdEnter \/ ThresholdLanes \/ ThresholdTail

SpecThreshold == InitThreshold /\ [][NextThreshold]_vars

ThresholdDone == kernel = "threshold_detection" /\ pc = "done"

\* C4: when threshold_detection returns, detections[k] is 1 exactly when
\* sensor_data[k] > threshold and 0 otherwise (so 0 on equality), in the lane
\* path and in the scalar tail alike.
C4_StrictThreshold ==
    ThresholdDone =>
        \A k \in 0 .. count - 1 :
            /\ out[k] \in {0, 1}
            /\ (out[k] = 1) <=> (in1[k] > arg)

\* a call with a sample equal to the threshold in a lane group and in the tail
C4_Witness ==
    /\ ThresholdDone /\ count > Lanes
    /\ in1[0] = arg /\ in1[Lanes] = arg
    /\ in1[1] > arg /\ out[1] = 1
    /\ out[0] = 0 /\ out[Lanes] = 0

(***************************************************************************)
(* speed(positions_prev, positions_curr, speeds, count, time_delta)        *)
(***************************************************************************)
InitSpeed ==
    \E n \in 0 .. MaxCountElem :
        \E x \in Buffers(n, PrevSamples), y \in Buffers(n, CurrSamples),
           t \in 1 .. MaxDelta, g \in GarbageFloat :
            Call("speed", n, t, x, y, Filled(n, g))

\* vmulq_f32(diff, time_inv)
SpeedLaneMul(diff, time_inv) == [k \in 1 .. Lanes |-> FMul(diff[k], time_inv[k])]

\* (positions_curr[i] - positions_prev[i]) / time_delta
SpeedTailValue(prev, curr, time_delta) == FDiv(curr - prev, time_delta)

SpeedEnter ==
    /\ kernel = "speed" /\ pc = "call"
    /\ acc' = [time_inv |-> vdupq_n(FDiv(1, arg)), simd_count |-> SimdCount(count)]
    /\ i' = 0
    /\ pc' = "lanes"
    /\ UNCHANGED <<kernel, count, arg, in1, in2, out, ret, reads, writes>>

SpeedLanes ==
    /\ kernel = "speed" /\ pc = "lanes"
    /\ IF i < acc.simd_count
       THEN LET prev == vld1q(in1, i)
                curr == vld1q(in2, i)
                diff == vsubq(curr, prev)
            IN  /\ out' = vst1q(out, i, SpeedLaneMul(diff, acc.time_inv))
                /\ reads' = reads \cup LaneAt("positions_prev", i)
                                  \cup LaneAt("positions_curr", i)
                /\ writes' = writes \cup LaneAt("speeds", i)
                /\ i' = i + Lanes
                /\ UNCHANGED pc
       ELSE /\ i' = acc.simd_count
            /\ pc' = "tail"
            /\ UNCHANGED <<out, reads, writes>>
    /\ UNCHANGED <<kernel, count, arg, in1, in2, ret, acc>>

SpeedTail ==
    /\ kernel = "speed" /\ pc = "tail"
    /\ IF i < count
       THEN /\ out' = Store(out, i, SpeedTailValue(Load(in1, i), Load(in2, i), arg))
            /\ reads' = reads \cup At("positions_prev", i) \cup At("positions_curr", i)
            /\ writes' = writes \cup At("speeds", i)
            /\ i' = i + 1
            /\ UNCHANGED pc
       ELSE /\ pc' = "done"
            /\ UNCHANGED <<out, i, reads, writes>>
    /\ UNCHANGED <<kernel, count, arg, in1, in2, ret, acc>>

NextSpeed == SpeedEnter \/ SpeedLanes \/ SpeedTail

SpecSpeed == InitSpeed /\ [][NextSpeed]_vars

SpeedDone == kernel = "speed" /\ pc = "done"

\* C10: every speeds[k], in the lane path and in the scalar tail alike, is
\* (positions_curr[k] - positions_prev[k]) multiplied by the one precomputed
\* reciprocal 1/time_delta, never the difference divided by time_delta.
C10_ReciprocalEverywhere ==
    SpeedDone =>
        \A k \in 0 .. count - 1 : out[k] = FMul(in2[k] - in1[k], FDiv(1, arg))


(***************************************************************************)
(* moving_average_filter(input, output, count, window_size)                *)
(***************************************************************************)
InitFilter ==
    \E n \in 0 .. MaxCountFilter :
        \E x \in Buffers(n, FilterSamples), w \in 0 .. MaxWindow, g \in GarbageFloat :
            Call("moving_average_filter", n, w, x, Empty, Filled(n, g))

FilterEarlyReturn == arg = 0 \/ count = 0

\* mutant: the window start is one sample too early
FilterStartEarly(k, window_size) == IF k >= window_size THEN k - window_size ELSE 0

\* size_t start = i >= window_size ? i - window_size + 1 : 0
FilterStart(k, window_size) == IF k >= window_size THEN k - window_size + 1 ELSE 0

RECURSIVE FilterLaneSum(_, _, _, _)
\* for (; j < simd_end; j += 4) sum = vaddq_f32(sum, vld1q_f32(&input[j]))
FilterLaneSum(x, j, simd_end, sum) ==
    IF j < simd_end
    THEN FilterLaneSum(x, j + Lanes, simd_end, vaddq(sum, vld1q(x, j)))
    ELSE sum

RECURSIVE FilterTailSum(_, _, _, _)
\* for (; j < end; ++j) total += input[j]
FilterTailSum(x, j, end, total) ==
    IF j < end THEN FilterTailSum(x, j + 1, end, total + Load(x, j)) ELSE total

\* the lane loads of one window: groups at start, start + 4, ... below simd_end
FilterLaneReads(start, simd_end) ==
    UNION {LaneAt("input", j) : j \in {k \in start .. simd_end - 1 : (k - start) % Lanes = 0}}

\* total / actual_window for output index k
FilterOutput(x, k, window_size) ==
    LET start == FilterStart(k, window_size)
        end == k + 1
        actual_window == end - start
        simd_end == start + SimdCount(actual_window)
        sum == FilterLaneSum(x, start, simd_end, vdupq_n(0))
        total == FilterTailSum(x, simd_end, end, HorizontalSum(sum))
    IN  FDiv(total, actual_window)

FilterEnter ==
    /\ kernel = "moving_average_filter" /\ pc = "call"
    /\ IF FilterEarlyReturn
       THEN /\ pc' = "done"
            /\ UNCHANGED <<i, acc>>
       ELSE /\ acc' = [scale |-> FDiv(1, arg)]
            /\ i' = 0
            /\ pc' = "loop"
    /\ UNCHANGED <<kernel, count, arg, in1, in2, out, ret, reads, writes>>

FilterLoop ==
    /\ kernel = "moving_average_filter" /\ pc = "loop"
    /\ IF i < count
       THEN LET start == FilterStart(i, arg)
                end == i + 1
                simd_end == start + SimdCount(end - start)
            IN  /\ out' = Store(out, i, FilterOutput(in1, i, arg))
                /\ reads' = reads \cup FilterLaneReads(start, simd_end)
                                  \cup {<<"input", j>> : j \in simd_end .. end - 1}
                /\ writes' = writes \cup At("output", i)
                /\ i' = i + 1
                /\ UNCHANGED pc
       ELSE /\ pc' = "done"
            /\ UNCHANGED <<out, i, reads, writes>>
    /\ UNCHANGED <<kernel, count, arg, in1, in2, ret, acc>>

NextFilter == FilterEnter \/ FilterLoop

SpecFilter == InitFilter /\ [][NextFilter]_vars

FilterDone == kernel = "moving_average_filter" /\ pc = "done"

Max(a, b) == IF a > b THEN a ELSE b

\* C5: for count >= 1 and window_size w >= 1, output[k] is the sum of
\* input[max(0, k-w+1) .. k] divided by the number of samples in that range:
\* output[0] = input[0], k+1 samples while k < w-1, the trailing w from k >= w-1.
C5_CausalWindow ==
    (FilterDone /\ count >= 1 /\ arg >= 1) =>
        /\ out[0] = FDiv(in1[0], 1)
        /\ \A k \in 0 .. count - 1 :
              LET lo == Max(0, k - arg + 1)
                  samples == IF k < arg - 1 THEN k + 1 ELSE arg
              IN  /\ samples = k - lo + 1
                  /\ out[k] = FDiv(SumRange(in1, lo, k), samples)

\* a call with a growing window, a full window of lane width plus a scalar
\* remainder, and a window that has slid off the first sample
C5_Witness ==
    /\ FilterDone /\ arg > Lanes /\ count > arg
    /\ in1[0] = 2 /\ in1[arg] = 0
    /\ out[arg] # out[arg - 1]

(***************************************************************************)
(* weighted_average(values, weights, count)                                *)
(***************************************************************************)
InitWeighted ==
    \E n \in 0 .. MaxCountAvg :
        \E x \in Buffers(n, AvgValues), y \in Buffers(n, AvgWeights) :
            Call("weighted_average", n, 0, x, y, Empty)

\* return weight_sum > 0.0f ? weighted_sum / weight_sum : 0.0f
WeightedResult(weighted_sum, weight_sum) ==
    IF weight_sum > 0 THEN FDiv(weighted_sum, weight_sum) ELSE <<0, 0>>

WeightedEnter ==
    /\ kernel = "weighted_average" /\ pc = "call"
    /\ acc' = [sum_weighted |-> vdupq_n(0), sum_weights |-> vdupq_n(0),
               simd_count |-> SimdCount(count),
               weighted_sum |-> 0, weight_sum |-> 0]
    /\ i' = 0
    /\ pc' = "lanes"
    /\ UNCHANGED <<kernel, count, arg, in1, in2, out, ret, reads, writes>>

WeightedLanes ==
    /\ kernel = "weighted_average" /\ pc = "lanes"
    /\ IF i < acc.simd_count
       THEN LET vals == vld1q(in1, i)
                wts == vld1q(in2, i)
            IN  /\ acc' = [acc EXCEPT !.sum_weighted = vfmaq(acc.sum_weighted, vals, wts),
                                      !.sum_weights = vaddq(acc.sum_weights, wts)]
                /\ reads' = reads \cup LaneAt("values", i) \cup LaneAt("weights", i)
                /\ i' = i + Lanes
                /\ UNCHANGED pc
       ELSE /\ acc' = [acc EXCEPT !.weighted_sum = HorizontalSum(acc.sum_weighted),
                                  !.weight_sum = HorizontalSum(acc.sum_weights)]
            /\ i' = acc.simd_count
            /\ pc' = "tail"
            /\ UNCHANGED reads
    /\ UNCHANGED <<kernel, count, arg, in1, in2, out, ret, writes>>

WeightedTail ==
    /\ kernel = "weighted_average" /\ pc = "tail"
    /\ IF i < count
       THEN /\ acc' = [acc EXCEPT !.weighted_sum = @ + Load(in1, i) * Load(in2, i),
                                  !.weight_sum = @ + Load(in2, i)]
            /\ reads' = reads \cup At("values", i) \cup At("weights", i)
            /\ i' = i + 1
            /\ UNCHANGED <<pc, ret>>
       ELSE /\ ret' = WeightedResult(acc.weighted_sum, acc.weight_sum)
            /\ pc' = "done"
            /\ UNCHANGED <<i, acc, reads>>
    /\ UNCHANGED <<kernel, count, arg, in1, in2, out, writes>>

NextWeighted == WeightedEnter \/ WeightedLanes \/ WeightedTail

SpecWeighted == InitWeighted /\ [][NextWeighted]_vars

WeightedDone == kernel = "weighted_average" /\ pc = "done"

\* the sum of x[k] * y[k] over k in lo .. hi
RECURSIVE DotRange(_, _, _, _)
DotRange(x, y, lo, hi) ==
    IF hi < lo THEN 0 ELSE DotRange(x, y, lo, hi - 1) + x[hi] * y[hi]

\* C6: weighted_average returns (sum of values[k]*weights[k]) / (sum of
\* weights[k]) over all k in [0, count) when the sum of weights is > 0, and 0
\* when it is <= 0, count = 0 included.
C6_WeightedMean ==
    WeightedDone =>
        LET sw == SumRange(in2, 0, count - 1)
            svw == DotRange(in1, in2, 0, count - 1)
        IN  /\ sw > 0 => ret = FDiv(svw, sw)
            /\ sw <= 0 => ret = <<0, 0>>

\* a call with a full lane group and a tail whose weights sum to more than 0,
\* the tail element carrying weight
C6_Witness ==
    /\ WeightedDone /\ count > Lanes
    /\ SumRange(in2, 0, count - 1) > 0
    /\ in2[Lanes] # 0 /\ in2[0] < 0
    /\ ret # <<0, 0>>

(***************************************************************************)
(* cross_correlation(signal1, signal2, length)                             *)
(***************************************************************************)
InitCorrelation ==
    \E n \in 0 .. MaxCountAvg :
        \E x \in Buffers(n, CorrSamples), y \in Buffers(n, CorrSamples) :
            Call("cross_correlation", n, 0, x, y, Empty)

CorrelationEnter ==
    /\ kernel = "cross_correlation" /\ pc = "call"
    /\ acc' = [sum |-> vdupq_n(0), simd_count |-> SimdCount(count), result |-> 0]
    /\ i' = 0
    /\ pc' = "lanes"
    /\ UNCHANGED <<kernel, count, arg, in1, in2, out, ret, reads, writes>>

CorrelationLanes ==
    /\ kernel = "cross_correlation" /\ pc = "lanes"
    /\ IF i < acc.simd_count
       THEN /\ acc' = [acc EXCEPT !.sum = vfmaq(acc.sum, vld1q(in1, i), vld1q(in2, i))]
            /\ reads' = reads \cup LaneAt("signal1", i) \cup LaneAt("signal2", i)
            /\ i' = i + Lanes
            /\ UNCHANGED pc
       ELSE /\ acc' = [acc EXCEPT !.result = HorizontalSum(acc.sum)]
            /\ i' = acc.simd_count
            /\ pc' = "tail"
            /\ UNCHANGED reads
    /\ UNCHANGED <<kernel, count, arg, in1, in2, out, ret, writes>>

CorrelationTail ==
    /\ kernel = "cross_correlation" /\ pc = "tail"
    /\ IF i < count
       THEN /\ acc' = [acc EXCEPT !.result = @ + Load(in1, i) * Load(in2, i)]
            /\ reads' = reads \cup At("signal1", i) \cup At("signal2", i)
            /\ i' = i + 1
            /\ UNCHANGED <<pc, ret>>
       ELSE /\ ret' = acc.result
            /\ pc' = "done"
            /\ UNCHANGED <<i, acc, reads>>
    /\ UNCHANGED <<kernel, count, arg, in1, in2, out, writes>>

(***************************************************************************)
(* exp_moving_average(input, output, count, alpha)                         *)
(*                                                                         *)
(* alpha is 2^-arg.  An output is the pair <<n, e>> for the value n / 2^e, *)
(* which the recurrence computes exactly in binary32 at these sizes.       *)
(***************************************************************************)
InitEma ==
    \E n \in 0 .. MaxCountEma :
        \E x \in Buffers(n, EmaSamples), a \in AlphaShifts, g \in GarbageFloat :
            Call("exp_moving_average", n, a, x, Empty, Filled(n, g))

EmaEarlyReturn == count = 0

\* alpha * input[i] + (1.0f - alpha) * output[i-1]
EmaStep(x, prev, shift) ==
    <<x * Pow2(prev[2]) + (Pow2(shift) - 1) * prev[1], prev[2] + shift>>

EmaEnter ==
    /\ kernel = "exp_moving_average" /\ pc = "call"
    /\ IF EmaEarlyReturn
       THEN /\ pc' = "done"
            /\ UNCHANGED <<out, i, reads, writes>>
       ELSE /\ out' = Store(out, 0, <<Load(in1, 0), 0>>)
            /\ reads' = reads \cup At("input", 0)
            /\ writes' = writes \cup At("output", 0)
            /\ i' = 1
            /\ pc' = "loop"
    /\ UNCHANGED <<kernel, count, arg, in1, in2, ret, acc>>

EmaLoop ==
    /\ kernel = "exp_moving_average" /\ pc = "loop"
    /\ IF i < count
       THEN /\ out' = Store(out, i, EmaStep(Load(in1, i), Load(out, i - 1), arg))
            /\ reads' = reads \cup At("input", i) \cup At("output", i - 1)
            /\ writes' = writes \cup At("output", i)
            /\ i' = i + 1
            /\ UNCHANGED pc
       ELSE /\ pc' = "done"
            /\ UNCHANGED <<out, i, reads, writes>>
    /\ UNCHANGED <<kernel, count, arg, in1, in2, ret, acc>>

(***************************************************************************)
(* The library: a call of any one kernel.                                  *)
(***************************************************************************)
Init ==
    \/ InitWeighted
    \/ InitCumSum
    \/ InitSpeed
    \/ InitFilter
    \/ InitMinIndex
    \/ InitCorrelation
    \/ InitEma
    \/ InitThreshold

Next ==
    \/ WeightedEnter \/ WeightedLanes \/ WeightedTail
    \/ CumSumEnter \/ CumSumLoop
    \/ SpeedEnter \/ SpeedLanes \/ SpeedTail
    \/ FilterEnter \/ FilterLoop
    \/ MinIndexEnter \/ MinIndexLanes \/ MinIndexTail
    \/ CorrelationEnter \/ CorrelationLanes \/ CorrelationTail
    \/ EmaEnter \/ EmaLoop
    \/ ThresholdEnter \/ ThresholdLanes \/ ThresholdTail

Spec == Init /\ [][Next]_vars

\* the value each kernel documents for an empty input; a kernel that returns
\* void leaves ret as it was at the call
EmptyDefault ==
    CASE kernel = "weighted_average" -> <<0, 0>>
      [] OTHER -> 0

\* C7: a kernel called with count = 0 reads no element of any input buffer,
\* writes no element of any output buffer, and returns its documented default
\* (0 for weighted_average and cross_correlation, index 0 for min_index).
C7_EmptyInput ==
    count = 0 =>
        /\ reads = {}
        /\ writes = {}
        /\ pc = "done" => ret = EmptyDefault

\* an empty call of min_index that has returned
C7_Witness == kernel = "min_index" /\ count = 0 /\ pc = "done" /\ ret = 0


\* the kernels whose buffer accesses C11 is about
BoundedKernels ==
    {"cumulative_sum", "moving_average_filter", "min_index",
     "weighted_average", "threshold_detection"}

\* C11: in cumulative_sum, moving_average_filter, min_index, weighted_average
\* and threshold_detection every element read from an input buffer and every
\* element written to an output buffer has an index in [0, count), 4-wide
\* loads and stores included, and cumulative_sum reads output[i-1] only at an
\* index it has already written in the same call.
C11_AccessesInBounds ==
    kernel \in BoundedKernels =>
        /\ \A a \in reads \cup writes : a[2] \in 0 .. count - 1
        /\ kernel = "cumulative_sum" =>
              /\ \A a \in reads : a[1] = "output" => a \in writes
              /\ pc = "loop" => <<"output", i - 1>> \in writes

\* a cumulative_sum call whose last 4-wide store ends exactly at count - 1,
\* its carry read from the last element of the group before
C11_Witness ==
    /\ kernel = "cumulative_sum" /\ pc = "done"
    /\ count = 2 * Lanes + 1
    /\ <<"output", Lanes>> \in reads
    /\ <<"input", count - 1>> \in reads
    /\ <<"output", count - 1>> \in writes

=============================================================================
